---- MODULE Spec2Model ----
(***************************************************************************)
(* The substreams pipeline: construction (New), HandlerFactory and the     *)
(* per-block handler it returns, with the responses, snapshots and         *)
(* returned errors of every handled block kept as a history.               *)
(***************************************************************************)
EXTENDS Integers, Sequences, FiniteSets, TLC

\* Highest block number the stream delivers; start block, stop block and
\* save interval are drawn from ranges derived from it.
MaxBlockNum == 3
\* Most blocks delivered to one handler.
MaxCalls == 3

BlockNums == 0..MaxBlockNum
StartBlockNums == 0..(MaxBlockNum - 1)
StopBlockNums == 0..MaxBlockNum
SaveIntervals == 0..(MaxBlockNum - 1)

SupportedVM == "wasm/rust-v1"

\* Width, in bits, of the unsigned block numbers (uint64, scaled down).
UintBits == 4
\* uint64(n)
Uint64(n) == n % (2 ^ UintBits)

----------------------------------------------------------------------------
\* The manifest: modules in topological order (an input precedes its consumer).

ModuleDefs ==
  << [name |-> "A", kind |-> "map",   initialBlock |-> 0, inputs |-> {}],
     [name |-> "S", kind |-> "store", initialBlock |-> 1, inputs |-> {}],
     [name |-> "M", kind |-> "map",   initialBlock |-> 0, inputs |-> {"S"}],
     [name |-> "T", kind |-> "store", initialBlock |-> 1, inputs |-> {"S"}] >>

ModuleNames == {ModuleDefs[i].name : i \in DOMAIN ModuleDefs}

ModuleByName(n) == CHOOSE m \in {ModuleDefs[i] : i \in DOMAIN ModuleDefs} : m.name = n

\* Output module lists and binary tables a request may carry.
OutputChoices == { <<>>, <<"A">>, <<"S">>, <<"M">> }
BinaryChoices == { <<>>, <<SupportedVM>>, <<"wasm/other">> }
\* Output module lists of the sub-requests whose leaf store is looked at: also
\* a store over another store and lists of two modules.
LeafOutputChoices ==
  OutputChoices \cup { <<"T">>, <<"S", "T">>, <<"T", "S">>, <<"A", "S">>, <<"S", "M">> }

\* A request of the pipeline model carries no cursor and is in development mode.
NoCursor == [raw |-> "", num |-> -1, step |-> {}]

PreBlockHooks == <<"pre1">>
PostJobHooks == <<"job1", "job2">>

RangeOf(seq) == {seq[i] : i \in DOMAIN seq}

RECURSIVE Ancestors(_)
Ancestors(names) ==
  LET more == names \cup UNION {ModuleByName(n).inputs : n \in names}
  IN IF more = names THEN names ELSE Ancestors(more)

ModulesDownTo(outs) ==
  LET keep == Ancestors(RangeOf(outs))
      Pick(m) == m.name \in keep
  IN SelectSeq(ModuleDefs, Pick)

StoresDownTo(outs) ==
  LET IsStore(m) == m.kind = "store"
  IN SelectSeq(ModulesDownTo(outs), IsStore)

----------------------------------------------------------------------------
\* Values

Nil == [msg |-> "nil", who |-> "", block |-> -1]
EOF == [msg |-> "EOF", who |-> "", block |-> -1]
NoReason == [msg |-> "", who |-> "", block |-> -1]
\* The error a failing call returns (site = <<callee, receiver>>).
ErrOf(site) == [msg |-> site[1], who |-> site[2], block |-> -1]
\* fmt.Errorf("<msg>: %w", inner)
Errorf(msg, inner) == [msg |-> msg, who |-> inner.who, block |-> -1]

NoLogs == [module |-> "", block |-> -1]
\* executor.moduleLogs() after running module name on block num
ModuleLogs(name, num) == [module |-> name, block |-> num]

NoMsg == [type |-> "", clock |-> -1, entries |-> <<>>]

Ev(ev, who, a, b, res, msg) ==
  [ev |-> ev, who |-> who, a |-> a, b |-> b, res |-> res, msg |-> msg]

----------------------------------------------------------------------------
\* Results of the calls the pipeline makes into its collaborators.

BodySites ==
  { <<"Update", "">>, <<"Save", "">>, <<"Payload.Get", "">>,
    <<"respFunc", "BlockScopedData">>, <<"respFunc", "ModulesProgress">> }
  \cup {<<"preBlockHook", PreBlockHooks[i]>> : i \in DOMAIN PreBlockHooks}
  \cup {<<"WriteState", n>> : n \in {m \in ModuleNames : ModuleByName(m).kind = "store"}}
  \cup {<<"run", n>> : n \in ModuleNames}

HookSites == {<<"postJobHook", PostJobHooks[i]>> : i \in DOMAIN PostJobHooks}

Sites == BodySites \cup HookSites

AllOk == [s \in Sites |-> "ok"]

\* One failing call in the body: an error return or a panic.
OneFault == {[AllOk EXCEPT ![s] = o] : s \in BodySites, o \in {"err", "panic"}}

\* A failing executor and a failing send of its failure progress.
ExecAndSend ==
  {[AllOk EXCEPT ![<<"run", n>>] = "err", ![<<"respFunc", "ModulesProgress">>] = o] :
      n \in ModuleNames, o \in {"err", "panic"}}

\* Post-job hooks return an error or not: all succeed, or the first one fails.
HookOutcomes ==
  {g \in [HookSites -> {"ok", "err"}] :
     \A i \in DOMAIN PostJobHooks : g[<<"postJobHook", PostJobHooks[i]>>] = "err" => i = 1}

WithHooks(f) ==
  {[s \in Sites |-> IF s \in HookSites THEN g[s] ELSE f[s]] : g \in HookOutcomes}

Inputs == UNION {WithHooks(f) : f \in {AllOk} \cup OneFault \cup ExecAndSend}

----------------------------------------------------------------------------
\* State

VARIABLES
  request,                \* the request: StartBlockNum, StopBlockNum, OutputModules, Binaries
  requestedStartBlockNum, \* Pipeline fields
  isBackprocessing,
  storesSaveInterval,
  vmType,
  modules,
  outputModuleNames,
  stores,                 \* store names in dependency order
  storesMap,              \* store name -> store
  leafStores,
  moduleExecutors,
  clock,                  \* number of the block being handled, -1 before the first
  moduleOutputs,
  wasmOutputs,            \* keys of the per-block scratch map
  phase,                  \* "new", "streaming", "closed", "rejected", "panicked"
  factoryErr,             \* what HandlerFactory returned
  factoryTrace,           \* the calls HandlerFactory made, in order
  calls,                  \* one record per handled block
  details,                \* what BuildRequestDetails returned
  sync,                   \* SynchronizeStores: where it stands, its counters, what it returned
  workers,                \* the scheduler's jobs, by number
  ctxDone                 \* the governing context is cancelled

vars == << request, requestedStartBlockNum, isBackprocessing, storesSaveInterval,
           vmType, modules, outputModuleNames, stores, storesMap, leafStores,
           moduleExecutors, clock, moduleOutputs, wasmOutputs, phase, factoryErr,
           factoryTrace, calls, details, sync, workers, ctxDone >>

config == << request, requestedStartBlockNum, isBackprocessing, storesSaveInterval,
             outputModuleNames >>

\* The variables of the request resolver and of SynchronizeStores.
resolverVars == << details >>
syncVars == << sync, workers, ctxDone >>

NoDetails ==
  [st |-> "none", err |-> Nil, RequestStartBlockNum |-> -1, LinearHandoffBlockNum |-> -1,
   StopBlockNum |-> -1, IsSubRequest |-> FALSE, IsOutputModule |-> {}, recent |-> -1,
   code |-> "", resolved |-> [num |-> -1, err |-> Nil, code |-> ""]]

SyncIdle == [pc |-> "idle", requestCount |-> 0, resultCount |-> 0, launched |-> FALSE,
             cancelled |-> FALSE, ret |-> Nil, by |-> ""]

\* New(): the fields of the pipeline as constructed for a request.
New ==
  /\ requestedStartBlockNum = Uint64(request.StartBlockNum)
  /\ outputModuleNames = request.OutputModules
  /\ vmType = ""
  /\ modules = <<>>
  /\ stores = <<>>
  /\ storesMap = << >>
  /\ leafStores = <<>>
  /\ moduleExecutors = <<>>
  /\ clock = -1
  /\ moduleOutputs = <<>>
  /\ wasmOutputs = {}
  /\ phase = "new"
  /\ factoryErr = Nil
  /\ factoryTrace = <<>>
  /\ calls = <<>>

\* New(): the pipeline as constructed for a request; isBackprocessing and
\* storesSaveInterval are set by the options.
Init ==
  /\ request \in [StartBlockNum : StartBlockNums, StopBlockNum : StopBlockNums,
                  OutputModules : OutputChoices, Binaries : BinaryChoices,
                  StartCursor : {NoCursor}, ProductionMode : {FALSE}]
  /\ isBackprocessing \in BOOLEAN
  /\ storesSaveInterval \in SaveIntervals
  /\ New
  /\ details = NoDetails
  /\ sync = SyncIdle
  /\ workers = << >>
  /\ ctxDone = FALSE

outputModuleMap(name) == name \in RangeOf(outputModuleNames)

----------------------------------------------------------------------------
\* Stores

\* state.NewBuilder
NewBuilder(module) ==
  [Name |-> module.name, ModuleInitialBlock |-> module.initialBlock,
   StoreInitialBlock |-> module.initialBlock, partial |-> FALSE,
   deltas |-> {}, kv |-> {}]

IsPartial(s) == s.partial

\* fetch(blockNum): the applied state at blockNum
Fetch(s, blockNum) == [s EXCEPT !.kv = {b \in BlockNums : s.ModuleInitialBlock <= b /\ b < blockNum}]

\* flush(): merge the deltas into the applied state and clear the buffer
Flush(s) == [s EXCEPT !.kv = @ \cup s.deltas, !.deltas = {}]

\* truncate() + roll(blockNum)
TruncateRoll(s, blockNum) == [s EXCEPT !.kv = {}, !.StoreInitialBlock = blockNum]

----------------------------------------------------------------------------
\* HandlerFactory

\* validate(): the first unsupported binary type is an error; vmType is the
\* type of the last binary seen.
RECURSIVE validate(_, _, _)
validate(binaries, i, vm) ==
  IF i > Len(binaries) THEN [err |-> Nil, vmType |-> vm]
  ELSE IF binaries[i] # SupportedVM
       THEN [err |-> [msg |-> "unsupported binary type", who |-> binaries[i], block |-> -1],
             vmType |-> vm]
       ELSE validate(binaries, i + 1, binaries[i])

\* buildStores(): one store per store module, keyed by name
buildStores(storeModules) ==
  [n \in {storeModules[i].name : i \in DOMAIN storeModules} |->
      NewBuilder(ModuleByName(n))]

\* Mutant: every module is held to the start block, output or not.
RejectedOutputsAnyModule(mods, start) ==
  {i \in DOMAIN mods : start < mods[i].initialBlock}

\* The output modules whose initialBlock is above the request's start block.
RejectedOutputs(mods, start) ==
  {i \in DOMAIN mods : outputModuleMap(mods[i].name) /\ start < mods[i].initialBlock}

\* The leaf-store condition of a sub-request.
IsLeafRequest(outs, storeSeq) ==
  /\ Len(outs) = 1
  /\ \E i \in DOMAIN storeSeq : storeSeq[i] = outs[1]
  /\ Len(storeSeq) > 0 /\ storeSeq[Len(storeSeq)] = outs[1]

\* LoadStores(): fetch every store that is neither partial nor starting at
\* the request's start block.
LoadStores(sm, start) ==
  [n \in DOMAIN sm |->
     IF IsPartial(sm[n]) \/ sm[n].StoreInitialBlock = start THEN sm[n]
     ELSE Fetch(sm[n], start)]

\* Stores are synchronized up to the start block when SynchronizeStores succeeds.
Synchronized(sm, start) == [n \in DOMAIN sm |-> Fetch(sm[n], start)]

FactoryFaults == {"none", "RegisterModule", "LoadStores", "SynchronizeStores", "NewModule", "Load"}

\* p.moduleOutputCache.RegisterModule for the first k modules
Registered(mods, k) == [i \in 1..k |-> <<"RegisterModule", mods[i].name>>]

HandlerFactory ==
  /\ phase = "new"
  /\ \E fault \in FactoryFaults :
       LET v == validate(request.Binaries, 1, vmType)
           mods == ModulesDownTo(outputModuleNames)
           storeMods == StoresDownTo(outputModuleNames)
           storeSeq == [i \in DOMAIN storeMods |-> storeMods[i].name]
           built == buildStores(storeMods)
           rejected == RejectedOutputs(mods, requestedStartBlockNum)
           firstRejected == CHOOSE i \in rejected : \A j \in rejected : i <= j
           \* the loop registers a module after checking it: a failing
           \* registration of the first module precedes the check of the next
           registerFails == fault = "RegisterModule" /\ Len(mods) > 0
                              /\ (rejected # {} => firstRejected > 1)
           leaf == isBackprocessing /\ Len(outputModuleNames) > 0
                     /\ IsLeafRequest(outputModuleNames, storeSeq)
           marked == IF leaf
                     THEN [built EXCEPT ![outputModuleNames[1]] =
                             [@ EXCEPT !.StoreInitialBlock = requestedStartBlockNum,
                                       !.partial = TRUE]]
                     ELSE built
           prepared == IF isBackprocessing THEN LoadStores(marked, requestedStartBlockNum)
                       ELSE Synchronized(marked, requestedStartBlockNum)
           prepareFails == IF isBackprocessing
                           THEN fault = "LoadStores" /\ \E n \in DOMAIN marked :
                                  ~IsPartial(marked[n])
                                  /\ marked[n].StoreInitialBlock # requestedStartBlockNum
                           ELSE fault = "SynchronizeStores"
           outOfRange == Len(mods) > 0 /\ Len(request.Binaries) = 0
           leaves == IF leaf THEN <<outputModuleNames[1]>> ELSE <<>>
           registered == Registered(mods, Len(mods))
           prepare == IF isBackprocessing THEN <<"LoadStores", "">>
                      ELSE <<"SynchronizeStores", "">>
           Outcome(ph, msg, who, ms, ss, sm, ls, execs, trace) ==
             /\ phase' = ph
             /\ factoryErr' = (IF ph = "streaming" THEN Nil
                               ELSE [msg |-> msg, who |-> who, block |-> -1])
             /\ vmType' = v.vmType /\ modules' = ms /\ stores' = ss /\ storesMap' = sm
             /\ leafStores' = ls /\ moduleExecutors' = execs
             /\ factoryTrace' = trace
       IN
       /\ IF v.err # Nil
          THEN Outcome("rejected", "building pipeline", v.err.who,
                       <<>>, <<>>, << >>, <<>>, <<>>, <<>>)
          ELSE IF registerFails
          THEN Outcome("rejected", "registering output cache", mods[1].name,
                       mods, storeSeq, built, <<>>, <<>>, Registered(mods, 1))
          ELSE IF rejected # {}
          THEN Outcome("rejected", "invalid request: start block smaller that request outputs",
                       mods[firstRejected].name,
                       mods, storeSeq, built, <<>>, <<>>, Registered(mods, firstRejected - 1))
          ELSE IF isBackprocessing /\ Len(outputModuleNames) = 0
          THEN \* outputModuleNames[0]: index out of range
               Outcome("panicked", "panic", "outputModuleNames[0]",
                       mods, storeSeq, built, <<>>, <<>>, registered)
          ELSE IF prepareFails
          THEN Outcome("rejected",
                       IF isBackprocessing THEN "loading stores" ELSE "synchronizing stores", "",
                       mods, storeSeq, marked, leaves, <<>>, Append(registered, prepare))
          ELSE IF outOfRange
          THEN \* Binaries[module.BinaryIndex]: index out of range
               Outcome("panicked", "panic", "Binaries[BinaryIndex]",
                       mods, storeSeq, prepared, leaves, <<>>, Append(registered, prepare))
          ELSE IF fault = "NewModule" /\ Len(mods) > 0
          THEN Outcome("rejected", "new wasm module", mods[1].name,
                       mods, storeSeq, prepared, leaves, <<>>,
                       registered \o << prepare, <<"NewModule", mods[1].name>> >>)
          ELSE IF fault = "Load" /\ Len(mods) > 0
          THEN Outcome("rejected", "loading outputs caches", "",
                       mods, storeSeq, prepared, leaves,
                       [i \in DOMAIN mods |-> mods[i].name],
                       registered \o << prepare >>
                         \o [i \in DOMAIN mods |-> <<"NewModule", mods[i].name>>]
                         \o << <<"Load", mods[1].name>> >>)
          ELSE Outcome("streaming", "", "",
                       mods, storeSeq, prepared, leaves,
                       [i \in DOMAIN mods |-> mods[i].name],
                       registered \o << prepare >>
                         \o [i \in DOMAIN mods |-> <<"NewModule", mods[i].name>>]
                         \o [i \in DOMAIN mods |-> <<"Load", mods[i].name>>])
       /\ UNCHANGED << config, clock, moduleOutputs, wasmOutputs, calls >>
       /\ UNCHANGED << resolverVars, syncVars >>

----------------------------------------------------------------------------
\* The block handler.  A handler state h holds where the invocation stands
\* (st: "running", "returned", "panicked"), the error it returns (err), what
\* it did so far (trace) and the pipeline fields it writes.

Emit(h, e) == [h EXCEPT !.trace = Append(@, e)]
Return(h, e) == [h EXCEPT !.st = "returned", !.err = e]
PanicWith(h, site) == [h EXCEPT !.st = "panicked", !.err = ErrOf(site)]

\* p.moduleOutputCache.Update
UpdateCache(h, in) ==
  LET site == <<"Update", "">>
      h1 == Emit(h, Ev("Update", "", -1, -1, in[site], NoMsg))
  IN IF h.st # "running" THEN h
     ELSE IF in[site] = "panic" THEN PanicWith(h1, site)
     ELSE IF in[site] = "err" THEN Return(h1, Errorf("updating module output cache", ErrOf(site)))
     ELSE h1

\* for _, hook := range p.preBlockHooks
RECURSIVE RunPreBlockHooks(_, _, _)
RunPreBlockHooks(h, i, in) ==
  IF h.st # "running" \/ i > Len(PreBlockHooks) THEN h
  ELSE LET site == <<"preBlockHook", PreBlockHooks[i]>>
           h1 == Emit(h, Ev("preBlockHook", PreBlockHooks[i], -1, -1, in[site], NoMsg))
       IN IF in[site] = "panic" THEN PanicWith(h1, site)
          ELSE IF in[site] = "err" THEN Return(h1, Errorf("pre block hook", ErrOf(site)))
          ELSE RunPreBlockHooks(h1, i + 1, in)

\* p.moduleOutputs = nil; p.wasmOutputs = map[string][]byte{}
ResetOutputs(h) ==
  IF h.st # "running" THEN h
  ELSE [h EXCEPT !.moduleOutputs = <<>>, !.wasmOutputs = {}]

\* Mutant: the first block of the request is snapshotted like any other.
isFirstRequestBlockNever(num) == FALSE

isFirstRequestBlock(num) == requestedStartBlockNum = num
\* Mutant: the alignment of the block on the save interval is not looked at.
intervalReachedUnaligned(num) == storesSaveInterval # 0

intervalReached(num) == storesSaveInterval # 0 /\ num % storesSaveInterval = 0
\* Mutant: a sub-request does not snapshot at its stop block.
isTemporaryStoreNever(num) == FALSE

isTemporaryStore(num) ==
  isBackprocessing /\ num = request.StopBlockNum /\ request.StopBlockNum # 0

\* Mutant: no snapshot once the stop block is reached.
ShouldSnapshotBeforeStop(num) ==
  /\ ~(requestedStartBlockNum = num)
  /\ \/ storesSaveInterval # 0 /\ num % storesSaveInterval = 0
     \/ isBackprocessing /\ num = request.StopBlockNum /\ request.StopBlockNum # 0
  /\ ~(num >= request.StopBlockNum /\ request.StopBlockNum # 0)

ShouldSnapshot(num) ==
  ~isFirstRequestBlock(num) /\ (intervalReached(num) \/ isTemporaryStore(num))

\* Mutant: the state of every store is written and no store is rolled.
RECURSIVE saveStoresSnapshotsNoRoll(_, _, _, _, _)
saveStoresSnapshotsNoRoll(h, order, i, lastBlock, in) ==
  IF h.st # "running" \/ i > Len(order) THEN h
  ELSE LET site == <<"WriteState", order[i]>>
           h1 == Emit(h, Ev("WriteState", order[i], h.storesMap[order[i]].StoreInitialBlock,
                            lastBlock, in[site], NoMsg))
       IN IF in[site] = "panic" THEN PanicWith(h1, site)
          ELSE IF in[site] = "err"
               THEN Return(h1, Errorf("saving stores", Errorf("writing store state", ErrOf(site))))
          ELSE saveStoresSnapshotsNoRoll(h1, order, i + 1, lastBlock, in)

\* saveStoresSnapshots: the stores are visited in map order (order)
RECURSIVE saveStoresSnapshots(_, _, _, _, _)
saveStoresSnapshots(h, order, i, lastBlock, in) ==
  IF h.st # "running" \/ i > Len(order) THEN h
  ELSE LET name == order[i]
           site == <<"WriteState", name>>
           builder == h.storesMap[name]
           h1 == Emit(h, Ev("WriteState", name, builder.StoreInitialBlock, lastBlock,
                            in[site], NoMsg))
           h2 == IF IsPartial(builder)
                 THEN [h1 EXCEPT !.storesMap[name] = TruncateRoll(builder, lastBlock)]
                 ELSE h1
       IN IF in[site] = "panic" THEN PanicWith(h1, site)
          ELSE IF in[site] = "err"
               THEN Return(h1, Errorf("saving stores", Errorf("writing store state", ErrOf(site))))
          ELSE saveStoresSnapshots(h2, order, i + 1, lastBlock, in)

SnapshotStores(h, order, num, in) ==
  IF h.st # "running" THEN h
  ELSE IF ShouldSnapshot(num) THEN saveStoresSnapshots(h, order, 1, num, in)
  ELSE h

\* Mutant: the stop block itself is still processed.
StopReachedExclusive(num) == num > request.StopBlockNum /\ request.StopBlockNum # 0

StopReached(num) == num >= request.StopBlockNum /\ request.StopBlockNum # 0

\* Mutant: the sub-request ends the stream without saving its output caches.
StopCheckNoSave(h, num, in) ==
  IF h.st # "running" \/ ~(num >= request.StopBlockNum /\ request.StopBlockNum # 0) THEN h
  ELSE Return(h, EOF)

\* p.moduleOutputCache.Save, in a sub-request only, then io.EOF
StopCheck(h, num, in) ==
  LET site == <<"Save", "">>
      h1 == Emit(h, Ev("Save", "", -1, -1, in[site], NoMsg))
  IN IF h.st # "running" \/ ~StopReached(num) THEN h
     ELSE IF isBackprocessing
          THEN IF in[site] = "panic" THEN PanicWith(h1, site)
               ELSE IF in[site] = "err"
                    THEN Return(h1, [msg |-> "saving partial caches", who |-> "", block |-> -1])
               ELSE Return(h1, EOF)
          ELSE Return(h, EOF)

assignSource(h, num, in) ==
  LET site == <<"Payload.Get", "">>
      h1 == Emit(h, Ev("Payload.Get", "", num, -1, in[site], NoMsg))
  IN IF h.st # "running" THEN h
     ELSE IF vmType = SupportedVM
          THEN IF in[site] = "panic" THEN PanicWith(h1, site)
               ELSE IF in[site] = "err"
                    THEN Return(h1, Errorf("setting up sources", Errorf("getting block", ErrOf(site))))
               ELSE [h1 EXCEPT !.wasmOutputs = @ \cup {"blockType", "sf.substreams.v1.Clock"}]
          ELSE PanicWith(Emit(h, Ev("assignSource", vmType, num, -1, "panic", NoMsg)),
                         <<"unsupported vmType", vmType>>)

\* respFunc(resp)
Send(h, msg, in) ==
  Emit(h, Ev("respFunc", "", -1, -1, in[<<"respFunc", msg.type>>], msg))

FailedEntry(name, reason, logs) ==
  [name |-> name, type |-> "Failed", reason |-> reason, logs |-> logs,
   start |-> -1, end |-> -1]

\* Mutant: only the failing module is listed.
returnFailureProgressCulpritOnly(h, err, failedExecutor, num, in) ==
  LET site == <<"respFunc", "ModulesProgress">>
      progress == << FailedEntry(failedExecutor, err, ModuleLogs(failedExecutor, num)) >>
      h1 == Emit(h, Ev("respFunc", "", -1, -1, in[site],
                       [type |-> "ModulesProgress", clock |-> num, entries |-> progress]))
  IN IF in[site] = "panic" THEN PanicWith(h1, site)
     ELSE IF in[site] = "err" THEN Return(h1, ErrOf(site))
     ELSE h1

returnFailureProgress(h, err, failedExecutor, num, in) ==
  LET site == <<"respFunc", "ModulesProgress">>
      earlier == [i \in DOMAIN h.moduleOutputs |->
                    FailedEntry(h.moduleOutputs[i].Name, NoReason, h.moduleOutputs[i].Logs)]
      progress == Append(earlier, FailedEntry(failedExecutor, err, ModuleLogs(failedExecutor, num)))
      h1 == Send(h, [type |-> "ModulesProgress", clock |-> num, entries |-> progress], in)
  IN IF in[site] = "panic" THEN PanicWith(h1, site)
     ELSE IF in[site] = "err" THEN Return(h1, ErrOf(site))
     ELSE h1

\* executor.run: a store module writes its deltas of the block, a map
\* module its output into the scratch map.
RunEffect(h, name, num) ==
  IF ModuleByName(name).kind = "store"
  THEN [h EXCEPT !.storesMap[name].deltas = @ \cup {num}]
  ELSE [h EXCEPT !.wasmOutputs = @ \cup {name}]

RECURSIVE RunExecutors(_, _, _, _)
RunExecutors(h, i, num, in) ==
  IF h.st # "running" \/ i > Len(moduleExecutors) THEN h
  ELSE LET executor == moduleExecutors[i]
           site == <<"run", executor>>
           h1 == Emit(h, Ev("run", executor, num, -1, in[site], NoMsg))
           failed == returnFailureProgress(h1, ErrOf(site), executor, num, in)
           ran == RunEffect(h1, executor, num)
           h2 == [ran EXCEPT !.moduleOutputs =
                    Append(@, [Name |-> executor, Logs |-> ModuleLogs(executor, num)])]
       IN IF in[site] = "panic" THEN PanicWith(h1, site)
          ELSE IF in[site] = "err"
               THEN (IF failed.st = "running" THEN Return(failed, ErrOf(site)) ELSE failed)
          ELSE RunExecutors(h2, i + 1, num, in)

OutputEntry(o) ==
  [name |-> o.Name, type |-> "Output", reason |-> NoReason, logs |-> o.Logs,
   start |-> -1, end |-> -1]

ProcessedRange(store, num) ==
  [name |-> store.Name, type |-> "ProcessedRanges", reason |-> NoReason, logs |-> NoLogs,
   start |-> store.StoreInitialBlock, end |-> num]

\* Mutant: a sub-request sends no BlockScopedData.
SendBlockScopedDataTopLevelOnly(h, num, in) ==
  LET site == <<"respFunc", "BlockScopedData">>
      out == [type |-> "BlockScopedData", clock |-> num,
              entries |-> [i \in DOMAIN h.moduleOutputs |->
                             [name |-> h.moduleOutputs[i].Name, type |-> "Output",
                              reason |-> NoReason, logs |-> h.moduleOutputs[i].Logs,
                              start |-> -1, end |-> -1]]]
      h1 == Emit(h, Ev("respFunc", "", -1, -1, in[site], out))
  IN IF Len(h.moduleOutputs) > 0 /\ ~isBackprocessing
     THEN IF in[site] = "panic" THEN PanicWith(h1, site)
          ELSE IF in[site] = "err" THEN Return(h1, Errorf("calling return func", ErrOf(site)))
          ELSE h1
     ELSE h

SendBlockScopedData(h, num, in) ==
  LET site == <<"respFunc", "BlockScopedData">>
      out == [type |-> "BlockScopedData", clock |-> num,
              entries |-> [i \in DOMAIN h.moduleOutputs |-> OutputEntry(h.moduleOutputs[i])]]
      h1 == Send(h, out, in)
  IN IF Len(h.moduleOutputs) > 0
     THEN IF in[site] = "panic" THEN PanicWith(h1, site)
          ELSE IF in[site] = "err" THEN Return(h1, Errorf("calling return func", ErrOf(site)))
          ELSE h1
     ELSE h

SendProgress(h, num, in) ==
  LET site == <<"respFunc", "ModulesProgress">>
      progress == [i \in DOMAIN leafStores |-> ProcessedRange(h.storesMap[leafStores[i]], num)]
      h1 == Send(h, [type |-> "ModulesProgress", clock |-> num, entries |-> progress], in)
  IN IF h.st # "running" \/ ~isBackprocessing THEN h
     ELSE IF in[site] = "panic" THEN PanicWith(h1, site)
     ELSE IF in[site] = "err" THEN Return(h1, Errorf("calling return func", ErrOf(site)))
     ELSE h1

returnOutputs(h, num, in) == SendProgress(SendBlockScopedData(h, num, in), num, in)

\* Mutant: the outputs are returned for every block.
EmitOutputsAlways(h, num, in) ==
  IF h.st # "running" THEN h ELSE returnOutputs(h, num, in)

\* if p.clock.Number >= p.requestedStartBlockNum { returnOutputs }
EmitOutputs(h, num, in) ==
  IF h.st # "running" THEN h
  ELSE IF num >= requestedStartBlockNum THEN returnOutputs(h, num, in)
  ELSE h

\* Mutant: the handler returns without flushing the stores.
FlushStoresNone(h, i) == h

\* for _, s := range p.storesMap { s.Flush() }
RECURSIVE FlushStores(_, _)
FlushStores(h, i) ==
  IF h.st # "running" \/ i > Len(stores) THEN h
  ELSE FlushStores(
         Emit([h EXCEPT !.storesMap[stores[i]] = Flush(@)],
              Ev("Flush", stores[i], -1, -1, "ok", NoMsg)),
         i + 1)

ReturnNil(h) == IF h.st = "running" THEN Return(h, Nil) ELSE h

\* Mutant: no recover().
RecoverNothing(h, num) == h

\* recover(): a panic becomes an error naming the block
Recover(h, num) ==
  IF h.st = "panicked"
  THEN [h EXCEPT !.st = "returned",
                 !.err = [msg |-> "panic at block", who |-> h.err.who, block |-> num]]
  ELSE h

\* the post-job hooks; a hook's error is logged and the next hook runs
RECURSIVE RunPostJobHooks(_, _, _)
RunPostJobHooks(h, i, in) ==
  IF i > Len(PostJobHooks) THEN h
  ELSE RunPostJobHooks(
         Emit(h, Ev("postJobHook", PostJobHooks[i], -1, -1,
                    in[<<"postJobHook", PostJobHooks[i]>>], NoMsg)),
         i + 1, in)

Deferred(h, num, in) ==
  LET h1 == Recover(h, num)
  IN IF h1.err # Nil THEN RunPostJobHooks(h1, 1, in) ELSE h1

Body(h, num, order, in) ==
  ReturnNil(
    FlushStores(
      EmitOutputs(
        RunExecutors(
          assignSource(
            StopCheck(
              SnapshotStores(
                ResetOutputs(
                  RunPreBlockHooks(
                    UpdateCache(h, in),
                    1, in)),
                order, num, in),
              num, in),
            num, in),
          1, num, in),
        num, in),
      1))

Handler(num, order, in) ==
  Deferred(
    Body([st |-> "running", err |-> Nil, trace |-> <<>>, storesMap |-> storesMap,
          moduleOutputs |-> moduleOutputs, wasmOutputs |-> wasmOutputs],
         num, order, in),
    num, in)

\* The orders in which a map of stores may be visited.
Orders(names) ==
  {o \in [1..Len(names) -> RangeOf(names)] : \A i, j \in DOMAIN o : i # j => o[i] # o[j]}

\* The calls this pipeline can make: a fault anywhere else changes nothing.
CallSites ==
  {<<"Update", "">>} \cup HookSites
  \cup {<<"preBlockHook", PreBlockHooks[i]>> : i \in DOMAIN PreBlockHooks}
  \cup {<<"WriteState", stores[i]>> : i \in DOMAIN stores}
  \cup {<<"run", moduleExecutors[i]>> : i \in DOMAIN moduleExecutors}
  \cup (IF isBackprocessing THEN {<<"Save", "">>} ELSE {})
  \cup (IF vmType = SupportedVM THEN {<<"Payload.Get", "">>} ELSE {})
  \cup (IF Len(moduleExecutors) > 0 THEN {<<"respFunc", "BlockScopedData">>} ELSE {})
  \cup (IF isBackprocessing \/ Len(moduleExecutors) > 0
        THEN {<<"respFunc", "ModulesProgress">>} ELSE {})

HandlerInputs == {in \in Inputs : \A s \in Sites : in[s] # "ok" => s \in CallSites}

\* The stream delivers blocks in ascending number order and stops at the first
\* block for which the handler returns an error (io.EOF included).
Deliver(ins) ==
  /\ phase = "streaming"
  /\ Len(calls) < MaxCalls
  /\ \E num \in BlockNums, in \in ins, order \in Orders(stores) :
       /\ num > clock
       /\ LET h == Handler(num, order, in)
          IN /\ clock' = num
             /\ storesMap' = h.storesMap
             /\ moduleOutputs' = h.moduleOutputs
             /\ wasmOutputs' = h.wasmOutputs
             /\ calls' = Append(calls, [num |-> num, st |-> h.st, ret |-> h.err,
                                        trace |-> h.trace])
             /\ phase' = IF h.st = "panicked" THEN "panicked"
                         ELSE IF h.err = Nil THEN "streaming" ELSE "closed"
  /\ UNCHANGED << config, vmType, modules, stores, leafStores, moduleExecutors, factoryErr,
                  factoryTrace >>
  /\ UNCHANGED << resolverVars, syncVars >>

HandleBlock == Deliver(HandlerInputs)

Next == HandlerFactory \/ HandleBlock

Spec == Init /\ [][Next]_vars

----------------------------------------------------------------------------
\* The request resolver: BuildRequestDetails and resolveStartBlockNum.

\* The cursors a request may carry: none, an opaque string that does not
\* parse, or the cursor of a block with a step (a set of step flags).
CursorBlocks == {0, MaxBlockNum - 1}
StepChoices == { {"irreversible"}, {"new"}, {"undo"}, {"new", "irreversible"},
                 {"stalled"}, {} }
CursorChoices ==
  {NoCursor, [raw |-> "garbage", num |-> -1, step |-> {}]}
  \cup {[raw |-> "cursor", num |-> b, step |-> st] : b \in CursorBlocks, st \in StepChoices}

\* getRecentFinalBlock(): a block number, or -1 for an error.
RecentFinalBlocks == {-1, 1, MaxBlockNum}

\* bstream.CursorFromOpaque
CursorFromOpaque(c) ==
  IF c.raw = "cursor" THEN [cursor |-> c, err |-> Nil]
  ELSE [cursor |-> NoCursor, err |-> [msg |-> "unable to decode", who |-> c.raw, block |-> -1]]

\* StepType.Matches
Matches(step, t) == t \in step

StatusError(code, msg) ==
  [num |-> 0, err |-> [msg |-> msg, who |-> "", block |-> -1], code |-> code]

Resolved(n) == [num |-> Uint64(n), err |-> Nil, code |-> "OK"]

\* Mutant: an undo cursor resumes after its block, a negative start block is
\* let through when a cursor is given.
resolveStartBlockNumCursorFirst(req) ==
  LET parsed == CursorFromOpaque(req.StartCursor)
  IN IF req.StartCursor.raw = ""
     THEN IF req.StartBlockNum < 0
          THEN StatusError("InvalidArgument", "start block num must be positive")
          ELSE Resolved(req.StartBlockNum)
     ELSE IF parsed.err # Nil THEN StatusError("InvalidArgument", "invalid start cursor")
     ELSE IF parsed.cursor.step \cap {"irreversible", "new", "undo"} # {}
          THEN Resolved(parsed.cursor.num + 1)
     ELSE StatusError("Unknown", "invalid start cursor step")

resolveStartBlockNum(req) ==
  LET parsed == CursorFromOpaque(req.StartCursor)
  IN IF req.StartBlockNum < 0
     THEN StatusError("InvalidArgument", "start block num must be positive")
     ELSE IF req.StartCursor.raw = "" THEN Resolved(req.StartBlockNum)
     ELSE IF parsed.err # Nil THEN StatusError("InvalidArgument", "invalid start cursor")
     ELSE IF Matches(parsed.cursor.step, "irreversible") THEN Resolved(parsed.cursor.num + 1)
     ELSE IF Matches(parsed.cursor.step, "new") THEN Resolved(parsed.cursor.num + 1)
     ELSE IF Matches(parsed.cursor.step, "undo") THEN Resolved(parsed.cursor.num)
     \* fmt.Errorf: an error that carries no status code
     ELSE StatusError("Unknown", "invalid start cursor step")

\* Mutant: the larger of the two.
minOfLarger(a, b) == IF a < b THEN b ELSE a

minOf(a, b) == IF a < b THEN a ELSE b

\* The linear handoff block, or -1 when it cannot be determined.
LinearHandoffBlockNum(req, start, recent) ==
  IF req.ProductionMode
  THEN IF recent = -1
       THEN (IF req.StopBlockNum = 0 THEN -1 ELSE req.StopBlockNum)
       ELSE (IF req.StopBlockNum = 0 THEN recent ELSE minOf(req.StopBlockNum, recent))
  ELSE IF recent = -1 THEN start ELSE minOf(start, recent)

BuildRequestDetails ==
  /\ details.st = "none"
  /\ \E recent \in RecentFinalBlocks :
       LET r == resolveStartBlockNum(request)
           handoff == LinearHandoffBlockNum(request, r.num, recent)
           failed(err, code) ==
             [NoDetails EXCEPT !.st = "failed", !.err = err, !.code = code,
                               !.recent = recent, !.resolved = r]
       IN details' =
            IF r.err # Nil THEN failed(r.err, r.code)
            ELSE IF handoff = -1
                 THEN failed([msg |-> "cannot determine a recent finalized block",
                              who |-> "", block |-> -1], "Unknown")
            ELSE [st |-> "ok", err |-> Nil, code |-> "OK",
                  RequestStartBlockNum |-> r.num,
                  LinearHandoffBlockNum |-> handoff,
                  StopBlockNum |-> request.StopBlockNum,
                  IsSubRequest |-> isBackprocessing,
                  IsOutputModule |-> RangeOf(request.OutputModules),
                  recent |-> recent, resolved |-> r]
  /\ UNCHANGED << config, vmType, modules, stores, storesMap, leafStores, moduleExecutors,
                  clock, moduleOutputs, wasmOutputs, phase, factoryErr, factoryTrace, calls >>
  /\ UNCHANGED syncVars

\* The requests the resolver is given: start block numbers from -1, every cursor,
\* both modes; the pipeline built for them is a top-level one over module A.
InitResolver ==
  /\ request \in [StartBlockNum : {-1} \cup StartBlockNums, StopBlockNum : StopBlockNums,
                  OutputModules : {<<"A">>}, Binaries : {<<SupportedVM>>},
                  StartCursor : CursorChoices, ProductionMode : BOOLEAN]
  /\ isBackprocessing = FALSE
  /\ storesSaveInterval = 0
  /\ New
  /\ details = NoDetails
  /\ sync = SyncIdle
  /\ workers = << >>
  /\ ctxDone = FALSE

\* The handler with every call it makes succeeding.
HandleBlockOk == Deliver({AllOk})

NextResolver == BuildRequestDetails \/ HandlerFactory \/ HandleBlockOk

ResolverSpec == InitResolver /\ [][NextResolver]_vars

----------------------------------------------------------------------------
\* Sub-requests over every output module list, for the leaf store that
\* HandlerFactory marks.

InitLeaf ==
  /\ request \in [StartBlockNum : StartBlockNums, StopBlockNum : {0, MaxBlockNum},
                  OutputModules : LeafOutputChoices, Binaries : {<<SupportedVM>>},
                  StartCursor : {NoCursor}, ProductionMode : {FALSE}]
  /\ isBackprocessing = TRUE
  /\ storesSaveInterval \in SaveIntervals
  /\ New
  /\ details = NoDetails
  /\ sync = SyncIdle
  /\ workers = << >>
  /\ ctxDone = FALSE

NextLeaf == HandlerFactory \/ HandleBlockOk

LeafSpec == InitLeaf /\ [][NextLeaf]_vars

----------------------------------------------------------------------------
\* SynchronizeStores, as HandlerFactory calls it for a top-level request, and
\* the scheduler's jobs that send their results to it.

\* Most sub-requests the strategy plans.
MaxRequests == 3

\* FetchStorageState, respFunc, NewSquasher, NewOrderedStrategy, NewScheduler
SyncFaults == {"none", "FetchStorageState", "respFunc", "NewSquasher",
               "NewOrderedStrategy", "NewScheduler"}
TailFaults == {"none", "NewModule", "Load"}

\* return from SynchronizeStores: the deferred cancel() runs
SyncReturn(by, err) ==
  [sync EXCEPT !.pc = "returned", !.by = by, !.ret = err, !.cancelled = TRUE]

\* HandlerFactory from the return of SynchronizeStores on.
FinishFactory(syncErr, synced, fault) ==
  LET prepared == IF synced THEN Synchronized(storesMap, requestedStartBlockNum)
                  ELSE storesMap
      execs == [i \in DOMAIN modules |-> modules[i].name]
      newModules == [i \in DOMAIN modules |-> <<"NewModule", modules[i].name>>]
      Outcome(ph, msg, who, sm, ex, trace) ==
        /\ phase' = ph
        /\ factoryErr' = (IF ph = "streaming" THEN Nil
                          ELSE [msg |-> msg, who |-> who, block |-> -1])
        /\ storesMap' = sm /\ moduleExecutors' = ex /\ factoryTrace' = trace
  IN IF syncErr # Nil
     THEN Outcome("rejected", "synchronizing stores", "", storesMap, <<>>, factoryTrace)
     ELSE IF fault = "NewModule"
     THEN Outcome("rejected", "new wasm module", modules[1].name, prepared, <<>>,
                  Append(factoryTrace, newModules[1]))
     ELSE IF fault = "Load"
     THEN Outcome("rejected", "loading outputs caches", "", prepared, execs,
                  factoryTrace \o newModules \o << <<"Load", modules[1].name>> >>)
     ELSE Outcome("streaming", "", "", prepared, execs,
                  factoryTrace \o newModules
                    \o [i \in DOMAIN modules |-> <<"Load", modules[i].name>>])

\* Mutant: the scheduler is launched whatever the request count.
NothingToSynchronizeNever(requestCount) == FALSE

\* if requestCount == 0 { return nil }
NothingToSynchronize(requestCount) == requestCount = 0

\* HandlerFactory up to and into SynchronizeStores: build, register, then
\* SynchronizeStores up to scheduler.Launch.
StartSynchronizeStores ==
  /\ phase = "new" /\ sync.pc = "idle"
  /\ \E fault \in SyncFaults, tail \in TailFaults :
       LET v == validate(request.Binaries, 1, vmType)
           mods == ModulesDownTo(outputModuleNames)
           storeMods == StoresDownTo(outputModuleNames)
           built == buildStores(storeMods)
       IN /\ vmType' = v.vmType
          /\ modules' = mods
          /\ stores' = [i \in DOMAIN storeMods |-> storeMods[i].name]
          /\ leafStores' = <<>>
          /\ IF fault # "none"
             THEN /\ sync' = SyncReturn("fault", ErrOf(<<fault, "">>))
                  /\ workers' = workers
                  /\ phase' = "rejected"
                  /\ factoryErr' = [msg |-> "synchronizing stores", who |-> "", block |-> -1]
                  /\ storesMap' = built /\ moduleExecutors' = <<>>
                  /\ factoryTrace' = Append(Registered(mods, Len(mods)),
                                            <<"SynchronizeStores", "">>)
             ELSE IF NothingToSynchronize(sync.requestCount)
             THEN /\ sync' = SyncReturn("zero", Nil)
                  /\ workers' = workers
                  /\ phase' = IF tail = "none" THEN "streaming" ELSE "rejected"
                  /\ factoryErr' =
                       (IF tail = "none" THEN Nil
                        ELSE [msg |-> IF tail = "NewModule" THEN "new wasm module"
                                      ELSE "loading outputs caches",
                              who |-> "", block |-> -1])
                  /\ storesMap' = Synchronized(built, requestedStartBlockNum)
                  /\ moduleExecutors' = (IF tail = "NewModule" THEN <<>>
                                         ELSE [i \in DOMAIN mods |-> mods[i].name])
                  /\ factoryTrace' = Append(Registered(mods, Len(mods)),
                                            <<"SynchronizeStores", "">>)
             ELSE /\ sync' = [sync EXCEPT !.pc = "waiting", !.launched = TRUE]
                  /\ workers' = [w \in 1..sync.requestCount |-> "running"]
                  /\ phase' = "synchronizing"
                  /\ factoryErr' = Nil
                  /\ storesMap' = built /\ moduleExecutors' = <<>>
                  /\ factoryTrace' = Append(Registered(mods, Len(mods)),
                                            <<"SynchronizeStores", "">>)
  /\ UNCHANGED << config, clock, moduleOutputs, wasmOutputs, calls, resolverVars, ctxDone >>

\* A job of the scheduler ends, with a result or an error, and goes to send
\* it on the result channel.
WorkerFinish ==
  /\ \E w \in DOMAIN workers, res \in {"ok", "err"} :
       /\ workers[w] = "running"
       /\ workers' = [workers EXCEPT ![w] = IF res = "ok" THEN "sending ok" ELSE "sending err"]
  /\ UNCHANGED << config, vmType, modules, stores, storesMap, leafStores, moduleExecutors,
                  clock, moduleOutputs, wasmOutputs, phase, factoryErr, factoryTrace, calls,
                  resolverVars, sync, ctxDone >>

\* case err := <-result: the channel is unbuffered, the receive takes the
\* result of one job that is sending.
ReceiveResult ==
  /\ sync.pc = "waiting"
  /\ \E w \in DOMAIN workers, ready \in {"ok", "err"}, tail \in TailFaults :
       /\ workers[w] \in {"sending ok", "sending err"}
       /\ workers' = [workers EXCEPT ![w] = "delivered"]
       /\ LET counted == [sync EXCEPT !.resultCount = @ + 1]
          IN IF workers[w] = "sending err"
             THEN /\ sync' = [counted EXCEPT !.pc = "returned", !.by = "failure",
                                             !.ret = Errorf("from worker", ErrOf(<<"worker", "">>)),
                                             !.cancelled = TRUE]
                  /\ FinishFactory(ErrOf(<<"worker", "">>), FALSE, tail)
             ELSE IF counted.resultCount = sync.requestCount
             THEN IF ready = "err"
                  THEN /\ sync' = [counted EXCEPT !.pc = "returned", !.by = "StoresReady",
                                       !.ret = Errorf("squasher ready", ErrOf(<<"StoresReady", "">>)),
                                       !.cancelled = TRUE]
                       /\ FinishFactory(ErrOf(<<"StoresReady", "">>), FALSE, tail)
                  ELSE /\ sync' = [counted EXCEPT !.pc = "returned", !.by = "complete",
                                                  !.ret = Nil, !.cancelled = TRUE]
                       /\ FinishFactory(Nil, TRUE, tail)
             ELSE /\ sync' = counted
                  /\ UNCHANGED << phase, factoryErr, storesMap, moduleExecutors, factoryTrace >>
  /\ UNCHANGED << config, vmType, modules, stores, leafStores, clock, moduleOutputs,
                  wasmOutputs, calls, resolverVars, ctxDone >>

\* The governing context is cancelled while SynchronizeStores waits.
CancelContext ==
  /\ sync.pc = "waiting" /\ ~ctxDone
  /\ ctxDone' = TRUE
  /\ UNCHANGED << config, vmType, modules, stores, storesMap, leafStores, moduleExecutors,
                  clock, moduleOutputs, wasmOutputs, phase, factoryErr, factoryTrace, calls,
                  resolverVars, sync, workers >>

\* The squasher has merged every segment: every job has ended with success
\* (the scheduler notifies the squasher when a job completes).
AllSquashed == \A w \in DOMAIN workers : workers[w] \in {"sending ok", "delivered"}

\* case <-ctx.Done(): return nil
ReceiveDone ==
  /\ sync.pc = "waiting" /\ ctxDone
  /\ \E tail \in TailFaults :
       /\ sync' = SyncReturn("ctx.Done", Nil)
       /\ FinishFactory(Nil, AllSquashed, tail)
  /\ UNCHANGED << config, vmType, modules, stores, leafStores, clock, moduleOutputs,
                  wasmOutputs, calls, resolverVars, workers, ctxDone >>

\* A top-level request for M, whose store S the orchestrator synchronizes
\* with the number of sub-requests the strategy plans.
InitSync ==
  /\ request \in [StartBlockNum : StartBlockNums, StopBlockNum : {0},
                  OutputModules : {<<"M">>}, Binaries : {<<SupportedVM>>},
                  StartCursor : {NoCursor}, ProductionMode : {FALSE}]
  /\ isBackprocessing = FALSE
  /\ storesSaveInterval \in SaveIntervals
  /\ New
  /\ details = NoDetails
  /\ sync \in {[SyncIdle EXCEPT !.requestCount = n] : n \in 0..MaxRequests}
  /\ workers = << >>
  /\ ctxDone = FALSE

NextSync ==
  StartSynchronizeStores \/ WorkerFinish \/ ReceiveResult \/ CancelContext \/ ReceiveDone

SyncSpec == InitSync /\ [][NextSync]_vars

\* The same, followed by the blocks the handler is given.
NextSyncStream == NextSync \/ HandleBlockOk

SyncStreamSpec == InitSync /\ [][NextSyncStream]_vars

----------------------------------------------------------------------------
\* What a handled block (a record c of calls) did.

EventsOf(c, kind) ==
  LET Is(e) == e.ev = kind IN SelectSeq(c.trace, Is)

\* The responses given to respFunc, by type.
SentOf(c, type) ==
  LET Is(e) == e.ev = "respFunc" /\ e.msg.type = type IN SelectSeq(c.trace, Is)

BlockScopedData(c) == SentOf(c, "BlockScopedData")
ModulesProgress(c) == SentOf(c, "ModulesProgress")
Snapshots(c) == EventsOf(c, "WriteState")
Ran(c) == EventsOf(c, "run")

\* Every call the handler made into a collaborator succeeded (the post-job
\* hooks, whose errors are only logged, aside).
BodyOk(c) == \A k \in DOMAIN c.trace : c.trace[k].ev # "postJobHook" => c.trace[k].res = "ok"

MessagesOf(c) == [k \in DOMAIN EventsOf(c, "respFunc") |-> EventsOf(c, "respFunc")[k].msg]

\* The blocks are delivered contiguously from the request's start block.
Contiguous == \A i \in DOMAIN calls : calls[i].num = requestedStartBlockNum + (i - 1)

\* The clocks of the BlockScopedData messages of the whole stream, in order sent.
RECURSIVE EmittedFrom(_)
EmittedFrom(i) ==
  IF i > Len(calls) THEN <<>>
  ELSE [k \in DOMAIN BlockScopedData(calls[i]) |-> BlockScopedData(calls[i])[k].msg.clock]
       \o EmittedFrom(i + 1)

----------------------------------------------------------------------------
\* Claims

\* C1: for every handled block at most one BlockScopedData message is sent,
\* and none is sent for a block whose number is below the request's start block.
C1_AtMostOneBlockScopedData ==
  \A i \in DOMAIN calls :
    /\ Len(BlockScopedData(calls[i])) <= 1
    /\ calls[i].num < requestedStartBlockNum => Len(BlockScopedData(calls[i])) = 0

\* A stream with a processed block below the start block (executors ran, nothing
\* sent) and a later block for which one BlockScopedData was sent.
C1_Witness ==
  \E i, j \in DOMAIN calls :
    /\ calls[i].num < requestedStartBlockNum /\ calls[i].ret = Nil
    /\ Len(Ran(calls[i])) > 0
    /\ Len(BlockScopedData(calls[j])) = 1

\* C2: with at least one module, a stop block, every executor (and every other
\* call of the handler) succeeding and the blocks delivered contiguously from
\* the start block, exactly one BlockScopedData is sent for each block of
\* [requestStartBlock, stopBlock), in ascending block order, none for the stop
\* block, for which the handler returns end-of-stream.
C2_ContiguousEmission ==
  ( /\ Len(modules) > 0
    /\ request.StopBlockNum # 0
    /\ Contiguous
    /\ \A i \in DOMAIN calls : BodyOk(calls[i]) )
  =>
  /\ \A i \in DOMAIN calls :
       IF calls[i].num < request.StopBlockNum
       THEN /\ Len(BlockScopedData(calls[i])) = 1
            /\ BlockScopedData(calls[i])[1].msg.clock = calls[i].num
            /\ calls[i].ret = Nil
       ELSE /\ Len(BlockScopedData(calls[i])) = 0
            /\ calls[i].ret = EOF
            /\ i = Len(calls)
            /\ phase = "closed"
  /\ LET emitted == EmittedFrom(1)
     IN \A k \in DOMAIN emitted : emitted[k] = requestedStartBlockNum + (k - 1)

\* Two blocks of the range emitted, then the stop block ends the stream.
C2_Witness ==
  /\ Len(modules) > 0 /\ request.StopBlockNum # 0 /\ Contiguous
  /\ \A i \in DOMAIN calls : BodyOk(calls[i])
  /\ Len(calls) = 3
  /\ calls[3].num = request.StopBlockNum /\ calls[3].ret = EOF
  /\ Len(EmittedFrom(1)) = 2

\* C3: a block at or past a non-zero stop block runs no executor, sends no
\* BlockScopedData and flushes no store; a top-level request does not save the
\* output caches; a sub-request signals end-of-stream only after the output
\* caches were saved; and the handler returns end-of-stream when the calls it
\* makes succeed.
C3_StopBlock ==
  \A i \in DOMAIN calls :
    (request.StopBlockNum # 0 /\ calls[i].num >= request.StopBlockNum) =>
      /\ Len(Ran(calls[i])) = 0
      /\ Len(BlockScopedData(calls[i])) = 0
      /\ Len(EventsOf(calls[i], "Flush")) = 0
      /\ ~isBackprocessing => Len(EventsOf(calls[i], "Save")) = 0
      /\ (isBackprocessing /\ calls[i].ret = EOF) =>
            \E k \in DOMAIN calls[i].trace :
               calls[i].trace[k].ev = "Save" /\ calls[i].trace[k].res = "ok"
      /\ BodyOk(calls[i]) => calls[i].ret = EOF

\* A sub-request that ended the stream on a block past its stop block, after
\* handling a block before it.
C3_Witness ==
  /\ isBackprocessing /\ request.StopBlockNum # 0
  /\ Len(calls) = 2
  /\ calls[1].ret = Nil /\ Len(Ran(calls[1])) > 0
  /\ calls[2].num > request.StopBlockNum /\ calls[2].ret = EOF
  /\ Len(EventsOf(calls[2], "Save")) = 1

\* C4: a store snapshot is written only while handling a block whose number is a
\* multiple of a non-zero save interval or, in a sub-request, equals the stop block.
C4_SnapshotBoundaries ==
  \A i \in DOMAIN calls :
    Len(Snapshots(calls[i])) > 0 =>
      \/ storesSaveInterval # 0 /\ calls[i].num % storesSaveInterval = 0
      \/ isBackprocessing /\ calls[i].num = request.StopBlockNum

\* A sub-request that skipped an unaligned block, snapshotted on an aligned one
\* and snapshotted again at its unaligned stop block.
C4_Witness ==
  /\ isBackprocessing /\ storesSaveInterval = 2 /\ Len(calls) = 3
  /\ requestedStartBlockNum = 0
  /\ calls[1].num = 1 /\ Len(Ran(calls[1])) > 0 /\ Len(Snapshots(calls[1])) = 0
  /\ calls[2].num = 2 /\ Len(Snapshots(calls[2])) > 0
  /\ calls[3].num = 3 /\ Len(Snapshots(calls[3])) > 0
  /\ calls[3].num = request.StopBlockNum

\* C5 as stated: a snapshot is taken while handling block num only if
\* num > requestStartBlock.
C5_SnapshotOnlyAboveStart ==
  \A i \in DOMAIN calls :
    Len(Snapshots(calls[i])) > 0 => calls[i].num > requestedStartBlockNum

\* C5 amended: no snapshot is taken while handling the block whose number equals
\* requestStartBlock, whatever its alignment; any other block, one below
\* requestStartBlock included, is snapshotted when it is aligned on the save
\* interval or is the stop block of a sub-request.
C5_SnapshotNotOnFirstBlock ==
  \A i \in DOMAIN calls :
    /\ Len(Snapshots(calls[i])) > 0 => calls[i].num # requestedStartBlockNum
    /\ ( /\ BodyOk(calls[i])
         /\ Len(stores) > 0
         /\ calls[i].num # requestedStartBlockNum
         /\ \/ storesSaveInterval # 0 /\ calls[i].num % storesSaveInterval = 0
            \/ isBackprocessing /\ request.StopBlockNum # 0
                 /\ calls[i].num = request.StopBlockNum )
       => Len(Snapshots(calls[i])) = Len(stores)

\* An aligned block below the start block was snapshotted, and the aligned
\* start block itself was not.
C5_Witness ==
  \E i, j \in DOMAIN calls :
    /\ calls[i].num < requestedStartBlockNum
    /\ Len(Snapshots(calls[i])) > 0
    /\ calls[j].num = requestedStartBlockNum
    /\ storesSaveInterval # 0 /\ calls[j].num % storesSaveInterval = 0
    /\ Len(Ran(calls[j])) > 0 /\ Len(Snapshots(calls[j])) = 0

\* C6 as stated: in a top-level request with a stop block, the block numbered
\* stopBlock ends the stream and no store snapshot is written while handling
\* it, for every save interval.
C6_NoSnapshotAtStopBlock ==
  \A i \in DOMAIN calls :
    ( /\ ~isBackprocessing /\ request.StopBlockNum # 0
      /\ calls[i].num = request.StopBlockNum
      /\ BodyOk(calls[i]) )
    => calls[i].ret = EOF /\ Len(Snapshots(calls[i])) = 0

\* C6 amended: in a top-level request with a stop block, the block numbered
\* stopBlock ends the stream, and the handler writes a snapshot of every store
\* at stopBlock, before ending the stream, exactly when the save interval is
\* not zero, stopBlock is a multiple of it and stopBlock is not the request's
\* start block.
C6_SnapshotAtAlignedStopBlock ==
  \A i \in DOMAIN calls :
    ( /\ ~isBackprocessing /\ request.StopBlockNum # 0
      /\ calls[i].num = request.StopBlockNum )
    =>
    LET aligned == /\ storesSaveInterval # 0
                   /\ request.StopBlockNum % storesSaveInterval = 0
                   /\ request.StopBlockNum # requestedStartBlockNum
    IN /\ Len(Snapshots(calls[i])) > 0 => aligned
       /\ BodyOk(calls[i]) =>
            /\ calls[i].ret = EOF
            /\ phase = "closed"
            /\ aligned =>
                 /\ Len(Snapshots(calls[i])) = Len(stores)
                 /\ \A k \in DOMAIN Snapshots(calls[i]) :
                      Snapshots(calls[i])[k].b = request.StopBlockNum

\* A top-level request wrote a snapshot at its stop block and ended the stream.
C6_Witness ==
  /\ ~isBackprocessing /\ request.StopBlockNum # 0
  /\ \E i \in DOMAIN calls :
       /\ calls[i].num = request.StopBlockNum
       /\ BodyOk(calls[i]) /\ calls[i].ret = EOF
       /\ Len(Snapshots(calls[i])) > 0

\* The snapshot writes of the leaf stores made while handling calls[i].
LeafWrites(i) ==
  LET Is(e) == e.ev = "WriteState" /\ e.who \in RangeOf(leafStores)
  IN SelectSeq(calls[i].trace, Is)

\* C7: in a sub-request [a, b) with a leaf store, b > a and no multiple of the
\* save interval strictly between a and b, when blocks a..b are delivered
\* contiguously and every call of the handler succeeds, the leaf store is
\* written exactly once, while handling block b, as the segment [a, b), and the
\* handler returns end-of-stream for block b after that write.
C7_OnePartialSnapshot ==
  ( /\ isBackprocessing /\ Len(leafStores) > 0
    /\ request.StopBlockNum > requestedStartBlockNum
    /\ \A m \in (requestedStartBlockNum + 1)..(request.StopBlockNum - 1) :
         ~(storesSaveInterval # 0 /\ m % storesSaveInterval = 0)
    /\ Contiguous
    /\ \A i \in DOMAIN calls : BodyOk(calls[i]) )
  =>
  \A i \in DOMAIN calls :
    IF calls[i].num = request.StopBlockNum
    THEN /\ Len(LeafWrites(i)) = 1
         /\ LeafWrites(i)[1].a = requestedStartBlockNum
         /\ LeafWrites(i)[1].b = request.StopBlockNum
         /\ calls[i].ret = EOF
         /\ i = Len(calls)
    ELSE /\ Len(LeafWrites(i)) = 0
         /\ calls[i].ret = Nil

\* The sub-request [1, 3) handled blocks 1, 2 and 3 and wrote its segment at 3.
C7_Witness ==
  /\ isBackprocessing /\ Len(leafStores) > 0 /\ Contiguous
  /\ requestedStartBlockNum = 1 /\ request.StopBlockNum = 3
  /\ Len(calls) = 3
  /\ \A i \in DOMAIN calls : BodyOk(calls[i])
  /\ Len(LeafWrites(3)) = 1 /\ calls[3].ret = EOF

\* C8 as stated: a sub-request whose only output module is a store sends no
\* BlockScopedData message; it sends only ProcessedRanges progress messages.
C8_StoreSubRequestSendsNoData ==
  (isBackprocessing /\ outputModuleNames = <<"S">>) =>
    \A i \in DOMAIN calls :
      BodyOk(calls[i]) =>
        /\ Len(BlockScopedData(calls[i])) = 0
        /\ \A k \in DOMAIN MessagesOf(calls[i]) :
             /\ MessagesOf(calls[i])[k].type = "ModulesProgress"
             /\ \A e \in DOMAIN MessagesOf(calls[i])[k].entries :
                  MessagesOf(calls[i])[k].entries[e].type = "ProcessedRanges"

\* C8 amended: a sub-request whose only output module is a store sends, for
\* every block at or above requestStartBlock that it processes successfully,
\* one BlockScopedData message carrying the outputs of the executed modules
\* and then one ProcessedRanges progress message for its leaf store; for a
\* block below requestStartBlock or at or past the stop block it sends nothing.
C8_StoreSubRequestSendsDataThenProgress ==
  (isBackprocessing /\ outputModuleNames = <<"S">>) =>
    \A i \in DOMAIN calls :
      BodyOk(calls[i]) =>
        LET sent == MessagesOf(calls[i])
        IN IF /\ calls[i].num >= requestedStartBlockNum
              /\ ~(request.StopBlockNum # 0 /\ calls[i].num >= request.StopBlockNum)
           THEN /\ Len(sent) = 2
                /\ sent[1].type = "BlockScopedData"
                /\ sent[1].clock = calls[i].num
                /\ \E e \in DOMAIN sent[1].entries : sent[1].entries[e].name = "S"
                /\ sent[2].type = "ModulesProgress"
                /\ Len(sent[2].entries) = Len(leafStores)
                /\ \A e \in DOMAIN sent[2].entries :
                     /\ sent[2].entries[e].type = "ProcessedRanges"
                     /\ sent[2].entries[e].name = leafStores[e]
                     /\ sent[2].entries[e].end = calls[i].num
           ELSE Len(sent) = 0

\* A store-only sub-request processed a block and sent both messages.
C8_Witness ==
  /\ isBackprocessing /\ outputModuleNames = <<"S">>
  /\ \E i \in DOMAIN calls :
       /\ BodyOk(calls[i]) /\ calls[i].ret = Nil
       /\ Len(BlockScopedData(calls[i])) = 1
       /\ Len(ModulesProgress(calls[i])) = 1

\* The executors that failed (returned an error) while handling c.
FailedRuns(c) ==
  LET Is(e) == e.ev = "run" /\ e.res = "err" IN SelectSeq(c.trace, Is)

\* C9: when an executor fails while handling block B, exactly one
\* ModulesProgress message is sent, listing every module that already
\* succeeded in B as Failed with its logs and no reason, then the failing
\* module as Failed with the error as reason and its logs; no later executor
\* runs, no BlockScopedData is sent, no store is flushed, and, the message
\* sent, the handler returns the executor's error.
C9_ExecutorFailure ==
  \A i \in DOMAIN calls :
    Len(FailedRuns(calls[i])) > 0 =>
      LET c == calls[i]
          runs == Ran(c)
          failing == runs[Len(runs)]
          err == ErrOf(<<"run", failing.who>>)
          progress == ModulesProgress(c)
      IN /\ Len(FailedRuns(c)) = 1
         /\ failing.res = "err"
         /\ Len(progress) = 1
         /\ Len(MessagesOf(c)) = 1
         /\ Len(progress[1].msg.entries) = Len(runs)
         /\ \A k \in DOMAIN runs :
              LET e == progress[1].msg.entries[k]
              IN /\ e.name = runs[k].who
                 /\ e.type = "Failed"
                 /\ e.logs = ModuleLogs(runs[k].who, c.num)
                 /\ e.reason = (IF k = Len(runs) THEN err ELSE NoReason)
         /\ Len(BlockScopedData(c)) = 0
         /\ Len(EventsOf(c, "Flush")) = 0
         /\ progress[1].res = "ok" => c.ret = err

\* The second executor of a block failed after the first succeeded.
C9_Witness ==
  \E i \in DOMAIN calls :
    /\ Len(Ran(calls[i])) = 2
    /\ Ran(calls[i])[1].res = "ok" /\ Ran(calls[i])[2].res = "err"
    /\ Len(ModulesProgress(calls[i])) = 1
    /\ ModulesProgress(calls[i])[1].res = "ok"
    /\ calls[i].ret = ErrOf(<<"run", Ran(calls[i])[2].who>>)

\* The post-job hooks run while handling c, in the order they ran.
HooksRun(c) ==
  [k \in DOMAIN EventsOf(c, "postJobHook") |-> EventsOf(c, "postJobHook")[k].who]

C11_ResolvedStartAsStated ==
  details.st # "none" =>
    LET c == request.StartCursor
        r == details.resolved
    IN /\ (c.raw = "" /\ request.StartBlockNum >= 0) =>
            r.err = Nil /\ r.num = request.StartBlockNum
       /\ (c.raw = "cursor" /\ c.step \cap {"new", "irreversible"} # {}) =>
            r.err = Nil /\ r.num = c.num + 1
       /\ (c.raw = "cursor" /\ c.step = {"undo"}) =>
            r.err = Nil /\ r.num = c.num

\* C11 amended: for a startBlockNum that is not negative, the resolved start
\* block is startBlockNum when the request has no cursor, C+1 when it has a
\* cursor for block C with step new or irreversible, and C when the step is
\* undo; a negative startBlockNum fails the resolution, cursor or not.
C11_ResolvedStart ==
  details.st # "none" =>
    LET c == request.StartCursor
        r == details.resolved
    IN IF request.StartBlockNum < 0
       THEN r.err # Nil /\ details.st = "failed"
       ELSE /\ c.raw = "" => r.err = Nil /\ r.num = request.StartBlockNum
            /\ (c.raw = "cursor" /\ c.step \cap {"new", "irreversible"} # {}) =>
                 r.err = Nil /\ r.num = c.num + 1
            /\ (c.raw = "cursor" /\ c.step = {"undo"}) =>
                 r.err = Nil /\ r.num = c.num

\* A request whose cursor (C, irreversible) and startBlockNum C+1 resolved to C+1.
C11_Witness ==
  /\ details.st = "ok"
  /\ request.StartCursor.raw = "cursor"
  /\ request.StartCursor.step = {"irreversible"}
  /\ request.StartBlockNum = request.StartCursor.num + 1
  /\ details.RequestStartBlockNum = request.StartBlockNum

\* C12: every failure of the start-block resolution is an invalid-argument
\* error, and BuildRequestDetails then returns no request details.
C12_ResolutionFailureIsInvalidArgument ==
  (details.st # "none" /\ details.resolved.err # Nil) =>
    /\ details.resolved.code = "InvalidArgument"
    /\ details.st = "failed"
    /\ details.code = "InvalidArgument"

\* Min of two block numbers.
Least(a, b) == IF a <= b THEN a ELSE b

\* C13: once the start block is resolved, the linear handoff block is, in
\* production mode, recentFinalBlock when stopBlock = 0 and
\* min(stopBlock, recentFinalBlock) otherwise, with an error when
\* recentFinalBlock is unavailable and stopBlock = 0; in development mode,
\* min(requestStartBlock, recentFinalBlock), or requestStartBlock when
\* recentFinalBlock is unavailable.
C13_LinearHandoff ==
  (details.st # "none" /\ details.resolved.err = Nil) =>
    LET stop == request.StopBlockNum
        recent == details.recent
        start == details.resolved.num
    IN IF request.ProductionMode
       THEN /\ (recent = -1 /\ stop = 0) => details.st = "failed"
            /\ (recent # -1 /\ stop = 0) =>
                  details.st = "ok" /\ details.LinearHandoffBlockNum = recent
            /\ (recent # -1 /\ stop # 0) =>
                  details.st = "ok" /\ details.LinearHandoffBlockNum = Least(stop, recent)
       ELSE /\ details.st = "ok"
            /\ details.LinearHandoffBlockNum =
                 (IF recent = -1 THEN start ELSE Least(start, recent))

\* A production request whose stop block lies above the recent final block.
C13_Witness ==
  /\ details.st = "ok" /\ request.ProductionMode
  /\ details.recent # -1 /\ request.StopBlockNum > details.recent
  /\ details.LinearHandoffBlockNum = details.recent

\* C14: the pipeline sends BlockScopedData only for blocks at or above the
\* start block the resolver returns for the request.
C14_EmissionThresholdIsResolvedStart ==
  details.st = "ok" =>
    \A i \in DOMAIN calls :
      Len(BlockScopedData(calls[i])) > 0 => calls[i].num >= details.RequestStartBlockNum

\* The output modules of the request whose initialBlock is above its start block.
LateOutputs ==
  {n \in RangeOf(outputModuleNames) : ModuleByName(n).initialBlock > requestedStartBlockNum}

\* C15: HandlerFactory returns an error and no handler, before any store is
\* synchronized or loaded, if some output module has
\* initialBlock > requestStartBlock; and it rejects a request for that reason
\* only then: a non-output ancestor with initialBlock > requestStartBlock
\* does not cause the rejection.
C15_RejectsLateOutput ==
  phase # "new" =>
    /\ LateOutputs # {} =>
         /\ phase = "rejected" /\ factoryErr # Nil /\ calls = <<>>
         /\ \A k \in DOMAIN factoryTrace :
              factoryTrace[k][1] \notin {"LoadStores", "SynchronizeStores"}
    /\ factoryErr.msg = "invalid request: start block smaller that request outputs" =>
         LateOutputs # {}

\* The request for output S (initialBlock 1) from block 0 was rejected.
C15_Witness ==
  /\ outputModuleNames = <<"S">> /\ requestedStartBlockNum = 0
  /\ phase = "rejected"
  /\ factoryErr.msg = "invalid request: start block smaller that request outputs"
  /\ factoryErr.who = "S"

\* C16: when the strategy plans no sub-request, SynchronizeStores returns
\* without launching the scheduler or a job and without receiving a result,
\* and it returns success unless one of the constructors before it failed.
C16_NothingToSynchronize ==
  (sync.requestCount = 0 /\ sync.pc # "idle") =>
    /\ sync.pc = "returned"
    /\ ~sync.launched /\ workers = << >> /\ sync.resultCount = 0
    /\ sync.by # "fault" => sync.by = "zero" /\ sync.ret = Nil

\* SynchronizeStores returned success for a request count of 0 and
\* HandlerFactory handed out the handler.
C16_Witness ==
  /\ sync.requestCount = 0 /\ sync.by = "zero" /\ sync.ret = Nil
  /\ phase = "streaming"

\* C17: with a request count n > 0, SynchronizeStores returns success only
\* after it has received n successful results; a failed result makes it
\* return that failure, with the shared context cancelled.
C17_SuccessAfterAllResults ==
  (sync.pc = "returned" /\ sync.requestCount > 0) =>
    /\ sync.ret = Nil =>
         /\ sync.resultCount = sync.requestCount
         /\ \A w \in DOMAIN workers : workers[w] = "delivered"
    /\ sync.by = "failure" => sync.ret # Nil /\ sync.cancelled

\* C18: when SynchronizeStores returns because the governing context was
\* cancelled while it waited, it returns an error and HandlerFactory hands
\* out no handler.
C18_CancellationPropagates ==
  sync.by = "ctx.Done" => sync.ret # Nil /\ phase # "streaming"

\* C19: once SynchronizeStores has returned because of a cancellation or of a
\* failed result, no job is left sending its result on the result channel,
\* which nothing receives from any more.
C19_NoBlockedSender ==
  (sync.pc = "returned" /\ sync.by \in {"ctx.Done", "failure"}) =>
    \A w \in DOMAIN workers : workers[w] \notin {"sending ok", "sending err"}

\* C20: no executor is run on a block below the initialBlock of its module.
C20_NoRunBelowInitialBlock ==
  \A i \in DOMAIN calls :
    \A k \in DOMAIN Ran(calls[i]) :
      calls[i].num >= ModuleByName(Ran(calls[i])[k].who).initialBlock

\* In the handled block c every store was flushed after every response was sent.
FlushedAfterEmission(c) ==
  \A i, j \in DOMAIN c.trace :
    (c.trace[i].ev = "respFunc" /\ c.trace[j].ev = "Flush") => i < j

\* C21: once the handler has returned success for a block, the delta buffer of
\* every store is empty and the block's deltas are in the store's applied state,
\* for a block below the request's start block too; every store is flushed in
\* that invocation, after the responses of the block were sent; and a delta
\* buffer never holds deltas of a block other than the one being handled, so
\* the next block is not given them.
C21_FlushedAtEndOfBlock ==
  /\ \A n \in DOMAIN storesMap : storesMap[n].deltas \subseteq {clock}
  /\ \A i \in DOMAIN calls :
       calls[i].ret = Nil =>
         /\ \A s \in DOMAIN stores :
              \E k \in DOMAIN calls[i].trace :
                calls[i].trace[k].ev = "Flush" /\ calls[i].trace[k].who = stores[s]
         /\ FlushedAfterEmission(calls[i])
  /\ (Len(calls) > 0 /\ calls[Len(calls)].ret = Nil) =>
       \A n \in DOMAIN storesMap :
         /\ storesMap[n].deltas = {}
         /\ clock \in storesMap[n].kv

\* Output M over store S from block 1: block 0, below the start block, and
\* block 1, for which BlockScopedData was sent, were both handled with
\* success and S holds the deltas of both.
C21_Witness ==
  /\ outputModuleNames = <<"M">> /\ requestedStartBlockNum = 1
  /\ Len(calls) = 2
  /\ calls[1].num = 0 /\ calls[1].ret = Nil /\ Len(BlockScopedData(calls[1])) = 0
  /\ calls[2].num = 1 /\ calls[2].ret = Nil /\ Len(BlockScopedData(calls[2])) = 1
  /\ storesMap["S"].deltas = {} /\ {0, 1} \subseteq storesMap["S"].kv

\* The request names exactly one output module, a store, that is the last of
\* the pipeline's stores in dependency order.
LeafCondition ==
  /\ Len(outputModuleNames) = 1
  /\ ModuleByName(outputModuleNames[1]).kind = "store"
  /\ Len(stores) > 0 /\ stores[Len(stores)] = outputModuleNames[1]

\* C22: HandlerFactory of a sub-request, unless it rejects the request with an
\* error, builds the handler; it has then registered the output store as the
\* leaf partial producer, with storeInitialBlock = requestStartBlock, if and
\* only if the request names exactly one output module that is a store and the
\* last store in dependency order; otherwise, whatever the number of output
\* modules, no leaf store is registered and no store is partial; and every
\* store that is not the leaf holds its state loaded up to requestStartBlock.
C22_LeafStoreIff ==
  (isBackprocessing /\ phase \notin {"new", "rejected"} /\ calls = <<>>) =>
    /\ phase = "streaming"
    /\ IF LeafCondition
       THEN /\ leafStores = << outputModuleNames[1] >>
            /\ IsPartial(storesMap[outputModuleNames[1]])
            /\ storesMap[outputModuleNames[1]].StoreInitialBlock = requestedStartBlockNum
       ELSE leafStores = <<>>
    /\ \A n \in DOMAIN storesMap :
         n \notin RangeOf(leafStores) =>
           /\ ~IsPartial(storesMap[n])
           /\ storesMap[n] = Fetch(NewBuilder(ModuleByName(n)), requestedStartBlockNum)

\* The handled block c wrote a snapshot with success: saveStoresSnapshots
\* wrote the state of every store of the pipeline at block c.num.
SnapshotWritten(c) ==
  /\ Len(Snapshots(c)) > 0
  /\ \A n \in DOMAIN storesMap :
       \E k \in DOMAIN Snapshots(c) :
         /\ Snapshots(c)[k].who = n
         /\ Snapshots(c)[k].b = c.num
         /\ Snapshots(c)[k].res = "ok"
         /\ \A l \in DOMAIN Snapshots(c) : Snapshots(c)[l].who = n => l = k

\* What the rest of the handled block c merged into store n after the snapshot:
\* the block's deltas if the store was flushed, nothing otherwise.
MergedAfterSnapshot(c, n) ==
  IF \E k \in DOMAIN c.trace : c.trace[k].ev = "Flush" /\ c.trace[k].who = n
  THEN {c.num} ELSE {}

\* C23: a snapshot at block N that succeeds writes the state of every store of
\* the pipeline once, at N; it leaves each partial store with an empty applied
\* state and storeInitialBlock = N, and each full store with its applied state
\* and storeInitialBlock unchanged (the applied states seen after the handler
\* has returned hold, in addition, what the rest of the block merged in).
C23_SnapshotEffect ==
  [][ (Len(calls') = Len(calls) + 1 /\ Len(Snapshots(calls'[Len(calls')])) > 0
       /\ \A k \in DOMAIN Snapshots(calls'[Len(calls')]) :
            Snapshots(calls'[Len(calls')])[k].res = "ok")
      => LET c == calls'[Len(calls')]
         IN /\ SnapshotWritten(c)
            /\ \A n \in DOMAIN storesMap :
                 /\ IsPartial(storesMap'[n]) = IsPartial(storesMap[n])
                 /\ IF IsPartial(storesMap[n])
                    THEN /\ storesMap'[n].StoreInitialBlock = c.num
                         /\ storesMap'[n].kv = MergedAfterSnapshot(c, n)
                    ELSE /\ storesMap'[n].StoreInitialBlock = storesMap[n].StoreInitialBlock
                         /\ storesMap'[n].kv = storesMap[n].kv \cup MergedAfterSnapshot(c, n)
    ]_vars

\* The sub-request for T over S, from block 1 with save interval 2: block 1
\* was handled, then block 2 wrote a snapshot of both stores and was
\* processed; the partial store T was emptied and rolled to 2 before it got
\* the deltas of block 2, the full store S kept its state.
C23_Witness ==
  /\ isBackprocessing /\ outputModuleNames = <<"T">> /\ requestedStartBlockNum = 1
  /\ Len(calls) = 2 /\ calls[1].num = 1 /\ calls[2].num = 2 /\ calls[2].ret = Nil
  /\ SnapshotWritten(calls[2])
  /\ IsPartial(storesMap["T"]) /\ storesMap["T"].StoreInitialBlock = 2
  /\ storesMap["T"].kv = {2}
  /\ ~IsPartial(storesMap["S"]) /\ storesMap["S"].StoreInitialBlock = 1
  /\ storesMap["S"].kv = {1, 2}

\* The blocks of store n below the request's start block: what the store holds
\* when it is synchronized up to that block.
SyncedRange(n) ==
  {b \in BlockNums : ModuleByName(n).initialBlock <= b /\ b < requestedStartBlockNum}

\* C24: whenever SynchronizeStores has returned success, whatever the return
\* path, every store holds its state up to the request's start block, and so
\* does every store of a top-level pipeline that has handled a block.
C24_SuccessMeansSynchronized ==
  /\ (sync.pc = "returned" /\ sync.ret = Nil) =>
       \A n \in DOMAIN storesMap : SyncedRange(n) \subseteq storesMap[n].kv
  /\ (~isBackprocessing /\ Len(calls) > 0) =>
       \A n \in DOMAIN storesMap : SyncedRange(n) \subseteq storesMap[n].kv

\* C25: a sub-request whose start block is below its stop block, given blocks
\* of strictly increasing numbers that may skip the stop block, does not
\* return end-of-stream for a block without having written, while handling
\* that block, a snapshot of every one of its stores.
C25_SnapshotBeforeEndOfStream ==
  (isBackprocessing /\ requestedStartBlockNum < request.StopBlockNum) =>
    \A i \in DOMAIN calls :
      calls[i].ret = EOF =>
        \A s \in DOMAIN stores :
          \E k \in DOMAIN Snapshots(calls[i]) :
            Snapshots(calls[i])[k].who = stores[s] /\ Snapshots(calls[i])[k].res = "ok"

====
